---- MODULE Spec2Model ----
(***************************************************************************)
(* A model of RustGin (src/src/lib.rs): the routing table and connection   *)
(* loop of HttpServer, the request parser HTTPRequest::new, the Method     *)
(* conversions and the HTTPResponse builder with its Display rendering.    *)
(*                                                                         *)
(* Text is modelled by TLA+ strings, taken apart with Len and SubSeq and   *)
(* put together with \o, so that splitting, case folding and formatting    *)
(* are computed the way the code computes them.                            *)
(***************************************************************************)
EXTENDS Naturals, Sequences, FiniteSets, TLC

VARIABLES
    functions,  \* HttpServer.functions: (url, method) -> handler
    regs,       \* history: the registrations made so far, in order
    pc,         \* where the control thread of the server is
    conn,       \* the accepted TcpStream (its peer's bytes, what was written)
    request,    \* the HTTPRequest produced by HTTPRequest::new, or NoRequest
    dispatched, \* what the lookup of listen found for request, or NotDispatched
    failure,    \* the failure the control thread met, or NoFailure; with
                \* pc = "error" it is the error listen returned
    open_streams, \* number of accepted TcpStream values not yet dropped
    resp,       \* two HTTPResponse values built by the same calls
    calls,      \* history: the add_header calls made on resp, in order
    out,        \* the two renderings of resp, or NotRendered
    text,       \* the text handed to Method::from
    converted,  \* the outcome of Method::from(text), or NotConverted
    shown,      \* the Display rendering of the converted Method, or NotShown
    back        \* a casing of shown and its Method::from, or NotConverted

vars == <<functions, regs, pc, conn, request, dispatched, failure, open_streams,
          resp, calls, out, text, converted, shown, back>>

serverVars == <<functions, regs, pc, conn, request, dispatched, failure,
                open_streams>>
responseVars == <<resp, calls, out>>
methodVars == <<text, converted, shown, back>>

-----------------------------------------------------------------------------
(* Bounds of the model.                                                    *)

MaxRegs == 2        \* registrations made before listen
MaxCalls == 3       \* add_header calls made on one response

-----------------------------------------------------------------------------
(* Text: the operations of str the code uses.                              *)

UpperLetters == "ABCDEFGHIJKLMNOPQRSTUVWXYZ"
LowerLetters == "abcdefghijklmnopqrstuvwxyz"

CharAt(s, i) == SubSeq(s, i, i)

\* The position of the first occurrence of the character c in s, 0 if none.
Find(s, c) ==
    LET hits == {i \in 1..Len(s) : CharAt(s, i) = c}
    IN  IF hits = {} THEN 0 ELSE CHOOSE i \in hits : \A j \in hits : i <= j

\* char::to_lowercase on the ASCII range.
LowerChar(c) ==
    LET i == Find(UpperLetters, c)
    IN  IF i = 0 THEN c ELSE CharAt(LowerLetters, i)

\* str::to_lowercase
RECURSIVE to_lowercase(_)
to_lowercase(s) ==
    IF Len(s) = 0 THEN ""
    ELSE LowerChar(CharAt(s, 1)) \o to_lowercase(SubSeq(s, 2, Len(s)))

\* str::split(c) collected: the pieces between the occurrences of c; always
\* at least one piece.
RECURSIVE split(_, _)
split(s, c) ==
    LET i == Find(s, c)
    IN  IF i = 0 THEN <<s>>
        ELSE <<SubSeq(s, 1, i - 1)>> \o split(SubSeq(s, i + 1, Len(s)), c)

\* chars().skip(1).collect::<String>()
skip1(s) == SubSeq(s, 2, Len(s))

\* usize rendered by {} in format!
Digits == "0123456789"

RECURSIVE usize_to_string(_)
usize_to_string(n) ==
    IF n < 10 THEN CharAt(Digits, n + 1)
    ELSE usize_to_string(n \div 10) \o CharAt(Digits, (n % 10) + 1)

\* [String]::join(sep)
RECURSIVE join(_, _)
join(pieces, sep) ==
    IF Len(pieces) = 0 THEN ""
    ELSE IF Len(pieces) = 1 THEN pieces[1]
    ELSE pieces[1] \o sep \o join(Tail(pieces), sep)

\* BufRead::lines collected: the text is cut after each "\n"; the "\n" and a
\* "\r" right before it are dropped; a last line without "\n" is a line too.
RECURSIVE lines(_)
lines(s) ==
    IF Len(s) = 0 THEN <<>>
    ELSE LET i == Find(s, "\n")
             raw == IF i = 0 THEN s ELSE SubSeq(s, 1, i - 1)
             line == IF i # 0 /\ Len(raw) > 0 /\ CharAt(raw, Len(raw)) = "\r"
                     THEN SubSeq(raw, 1, Len(raw) - 1) ELSE raw
             rest == IF i = 0 THEN "" ELSE SubSeq(s, i + 1, Len(s))
         IN  <<line>> \o lines(rest)

\* Iterator::take_while(|line| !line.is_empty()) collected
RECURSIVE take_while_nonempty(_)
take_while_nonempty(ls) ==
    IF Len(ls) = 0 \/ Len(ls[1]) = 0 THEN <<>>
    ELSE <<ls[1]>> \o take_while_nonempty(Tail(ls))

-----------------------------------------------------------------------------
(* Method: the enum and its conversions.                                   *)

Methods ==
    {"Method::OPTIONS", "Method::GET", "Method::HEAD", "Method::POST",
     "Method::PUT", "Method::DELETE", "Method::TRACE", "Method::CONNECT"}

Returned(v) == [kind |-> "value", value |-> v]
Panicked(msg) == [kind |-> "panic", msg |-> msg]

\* impl From<&str> for Method: a value, or the panic of the last match arm.
MethodFrom(value) ==
    LET l == to_lowercase(value)
    IN  CASE l = "options" -> Returned("Method::OPTIONS")
          [] l = "get"     -> Returned("Method::GET")
          [] l = "head"    -> Returned("Method::HEAD")
          [] l = "post"    -> Returned("Method::POST")
          [] l = "put"     -> Returned("Method::PUT")
          [] l = "delete"  -> Returned("Method::DELETE")
          [] l = "trace"   -> Returned("Method::TRACE")
          [] l = "connect" -> Returned("Method::CONNECT")
          [] OTHER -> Panicked("Invalid conversion to Method from String: " \o value)

\* A Display for Method with a misspelt token.
MethodDisplay_typo(m) ==
    CASE m = "Method::OPTIONS" -> "OPTIONS"
      [] m = "Method::GET"     -> "GET"
      [] m = "Method::HEAD"    -> "HEAD"
      [] m = "Method::POST"    -> "POST"
      [] m = "Method::PUT"     -> "PUT"
      [] m = "Method::DELETE"  -> "DELETE"
      [] m = "Method::TRACE"   -> "TRACK"
      [] m = "Method::CONNECT" -> "CONNECT"

\* impl Display for Method
MethodDisplay(m) ==
    CASE m = "Method::OPTIONS" -> "OPTIONS"
      [] m = "Method::GET"     -> "GET"
      [] m = "Method::HEAD"    -> "HEAD"
      [] m = "Method::POST"    -> "POST"
      [] m = "Method::PUT"     -> "PUT"
      [] m = "Method::DELETE"  -> "DELETE"
      [] m = "Method::TRACE"   -> "TRACE"
      [] m = "Method::CONNECT" -> "CONNECT"

-----------------------------------------------------------------------------
(* Status and HTTPResponse.                                                *)

Statuses == {"Status::Ok", "Status::NotFound", "Status::SwitchingProtocols"}

\* impl Display for Status
StatusDisplay(st) ==
    CASE st = "Status::Ok" -> "200 OK"
      [] st = "Status::NotFound" -> "404 NOT FOUND"
      [] st = "Status::SwitchingProtocols" -> "101 Switching Protocols"

\* HashMap::new()
EmptyMap == <<>>

\* A HashMap::insert that keeps the entry a key already has.
MapInsert_keep(map, key, value) ==
    [k \in (DOMAIN map) \cup {key} |-> IF k \in DOMAIN map THEN map[k] ELSE value]

\* HashMap::insert: the entry of key is set, whatever it was.
MapInsert(map, key, value) ==
    [k \in (DOMAIN map) \cup {key} |-> IF k = key THEN value ELSE map[k]]

\* HTTPResponse::new
HTTPResponse_new(status, data) ==
    [protocol |-> "HTTP/1.1", status |-> status, data |-> data, headers |-> EmptyMap]

\* An add_header that inserts without looking for the key first.
add_header_overwrite(r, key, value) ==
    [r EXCEPT !.headers = MapInsert(r.headers, key, value)]

\* HTTPResponse::add_header
add_header(r, key, value) ==
    IF key \in DOMAIN r.headers THEN r
    ELSE [r EXCEPT !.headers = MapInsert(r.headers, key, value)]

\* The orders in which HashMap::iter may visit the entries of a map: the
\* order follows the hashes under the map's own RandomState, so any
\* enumeration of the keys, each once, is possible.
IterOrders(map) ==
    LET n == Cardinality(DOMAIN map)
    IN  {o \in [1..n -> DOMAIN map] : \A i, j \in 1..n : o[i] = o[j] => i = j}

\* impl Display for HTTPResponse, with the order in which headers.iter()
\* visited the entries.
HTTPResponse_fmt(r, order) ==
    LET headers == join([i \in 1..Len(order) |->
                            order[i] \o ": " \o r.headers[order[i]]], "\n")
    IN  r.protocol \o " " \o StatusDisplay(r.status)
        \o "\r\nContent-Length: " \o usize_to_string(Len(r.data))
        \o "\r\n" \o headers \o "\r\n" \o r.data

-----------------------------------------------------------------------------
(* HTTPRequest.                                                            *)

None == [kind |-> "None"]
Some(v) == [kind |-> "Some", value |-> v]

\* The header loop of HTTPRequest::new over request[from..]: each line is
\* split at ':', the first piece is the key, the second piece less its first
\* character the value; a line without ':' has no second piece to unwrap.
RECURSIVE parse_headers(_, _, _)
parse_headers(request_lines, from, headers) ==
    IF from > Len(request_lines) THEN Returned(headers)
    ELSE LET pieces == split(request_lines[from], ":")
         IN  IF Len(pieces) < 2
             THEN Panicked("called Option::unwrap() on a None value")
             ELSE parse_headers(request_lines, from + 1,
                                MapInsert(headers, pieces[1], skip1(pieces[2])))

\* An HTTPRequest::new that indexes request[0] without the length check.
HTTPRequest_new_unchecked(input) ==
    LET request_lines == take_while_nonempty(lines(input))
    IN  IF Len(request_lines) = 0
        THEN Panicked("index out of bounds: the len is 0 but the index is 0")
        ELSE LET req_line_split == split(request_lines[1], " ")
                 method == MethodFrom(req_line_split[1])
                 headers == parse_headers(request_lines, 2, EmptyMap)
             IN  IF method.kind = "panic" THEN method
                 ELSE IF Len(req_line_split) < 2
                 THEN Panicked("called Option::unwrap() on a None value")
                 ELSE IF headers.kind = "panic" THEN headers
                 ELSE Returned(Some([method |-> method.value,
                                     url |-> req_line_split[2],
                                     headers |-> headers.value]))

\* HTTPRequest::new on a stream whose reader yields the bytes input and then
\* the end of the stream: Some(request), None, or a panic.
HTTPRequest_new(input) ==
    LET request_lines == take_while_nonempty(lines(input))
    IN  IF Len(request_lines) > 0
        THEN LET req_line_split == split(request_lines[1], " ")
                 method == MethodFrom(req_line_split[1])
                 headers == parse_headers(request_lines, 2, EmptyMap)
             IN  IF method.kind = "panic" THEN method
                 ELSE IF Len(req_line_split) < 2
                 THEN Panicked("called Option::unwrap() on a None value")
                 ELSE IF headers.kind = "panic" THEN headers
                 ELSE Returned(Some([method |-> method.value,
                                     url |-> req_line_split[2],
                                     headers |-> headers.value]))
        ELSE Returned(None)

\* A send that answers with another status.
send_bytes_not_found(body) ==
    HTTPResponse_fmt(HTTPResponse_new("Status::NotFound", body), <<>>)

\* What HTTPRequest::send hands to write_all.
send_bytes(body) ==
    HTTPResponse_fmt(HTTPResponse_new("Status::Ok", body), <<>>)

\* What HTTPRequest::send_json hands to write_all.
send_json_bytes(body) ==
    LET response == add_header(HTTPResponse_new("Status::Ok", body),
                               "Content-Type", "application/json")
    IN  HTTPResponse_fmt(response, <<"Content-Type">>)

-----------------------------------------------------------------------------
(* The application: handlers registered with the server, and its clients.  *)

\* Three functions of type HTTPHandler: one answers with send("hi"), one
\* with send_json("{}"), one returns an error without writing.
Handlers == {"hello", "json", "fail"}

HandlerBytes(func) ==
    CASE func = "hello" -> send_bytes("hi")
      [] func = "json" -> send_json_bytes("{}")
      [] func = "fail" -> ""

RegUrls == {"/a", "/A"}
AddMethods == {"Method::POST", "Method::PUT"}

CRLF == "\r\n"

RequestLines ==
    {"GET /a HTTP/1.1", "get /a HTTP/1.1", "POST /a HTTP/1.1",
     "PUT /A HTTP/1.1", "GET /A HTTP/1.1", "GET /a/ HTTP/1.1",
     "GET /b HTTP/1.1", "GET / HTTP/1.1", "fetch /a HTTP/1.1",
     "GET /a", "GET"}

HeaderBlocks ==
    {"Host: localhost:5000\r\n", "Host: x\r\nhost: y\r\n",
     "Host: x\r\nHost: y\r\n", "NoSeparator\r\n",
     "content-length: 2\r\n", "X-Empty:\r\n"}

\* What a client delivers, and what its side of the connection does after
\* the last byte: "closed" (end of stream), "open" (nothing more arrives,
\* the connection stays up) or "reset" (the next read fails).
Clients ==
    [input : {l \o CRLF \o "Host: x\r\n" \o CRLF : l \in RequestLines},
     peer : {"closed"}]
    \cup [input : {"GET /a HTTP/1.1\r\n" \o h \o CRLF : h \in HeaderBlocks},
          peer : {"closed"}]
    \cup [input : {"POST /a HTTP/1.1\r\ncontent-length: 2\r\n\r\nhi",
                   "POST /a HTTP/1.1\r\ncontent-length: 2\r\n\r\n",
                   "GET /a HTTP/1.1\r\nHost: x\r\n\r\nGET /A HTTP/1.1\r\n\r\n",
                   "GET /a HTTP/1.1\nHost: x\n\n"},
          peer : {"closed", "open"}]
    \cup [input : {"", "\r\n", "GET /a HTTP/1.1\r\nHost: x\r\n",
                   "POST /a HTTP/1.1\r\ncontent-length: 2\r\n"},
          peer : {"closed", "open", "reset"}]

NoConn == [open |-> FALSE]
NoRequest == [kind |-> "NoRequest"]
NotDispatched == [kind |-> "NotDispatched"]
NoFailure == "none"

\* The reader has an empty line to stop at.
HasEmptyLine(input) ==
    \E ls \in {lines(input)} : \E i \in 1..Len(ls) : Len(ls[i]) = 0

-----------------------------------------------------------------------------
(* HttpServer.                                                             *)

\* A key that folds the letter case of the url.
Key_folded(url, method) == <<to_lowercase(url), method>>

\* The key (url, method) of HttpServer.functions.
Key(url, method) == <<url, method>>

\* HashMap::get
MapGet(map, key) ==
    IF key \in DOMAIN map THEN Some(map[key]) ELSE None

\* The history variable regs after a registration.
Registered(method, url, func) ==
    Append(regs, [method |-> method, url |-> url, func |-> func])

\* HttpServer::get
Get ==
    /\ pc = "setup"
    /\ Len(regs) < MaxRegs
    /\ \E url \in RegUrls, func \in Handlers :
        /\ functions' = MapInsert(functions, Key(url, "Method::GET"), func)
        /\ regs' = Registered("Method::GET", url, func)
    /\ UNCHANGED <<pc, conn, request, dispatched, failure, open_streams>>
    /\ UNCHANGED <<responseVars, methodVars>>

\* HttpServer::post
Post ==
    /\ pc = "setup"
    /\ Len(regs) < MaxRegs
    /\ \E url \in RegUrls, func \in Handlers :
        /\ functions' = MapInsert(functions, Key(url, "Method::POST"), func)
        /\ regs' = Registered("Method::POST", url, func)
    /\ UNCHANGED <<pc, conn, request, dispatched, failure, open_streams>>
    /\ UNCHANGED <<responseVars, methodVars>>

\* HttpServer::add_method
AddMethod ==
    /\ pc = "setup"
    /\ Len(regs) < MaxRegs
    /\ \E method \in AddMethods, url \in RegUrls, func \in Handlers :
        /\ functions' = MapInsert(functions, Key(url, method), func)
        /\ regs' = Registered(method, url, func)
    /\ UNCHANGED <<pc, conn, request, dispatched, failure, open_streams>>
    /\ UNCHANGED <<responseVars, methodVars>>

\* HttpServer::listen up to the loop: TcpListener::bind(..)?
Listen ==
    /\ pc = "setup"
    /\ \E bound \in BOOLEAN :
        /\ pc' = IF bound THEN "accept" ELSE "error"
        /\ failure' = IF bound THEN NoFailure ELSE "bind"
    /\ UNCHANGED <<functions, regs, conn, request, dispatched, open_streams>>
    /\ UNCHANGED <<responseVars, methodVars>>

\* An accept error that is skipped: the loop goes on to the next stream.
AfterAcceptError_skip == "accept"

\* `stream?` on a failed accept: listen returns the error.
AfterAcceptError == "error"

\* A stream that is not closed when its owner goes out of scope.
drop_stream_leak(n) == n

\* Drop of the TcpStream, with the request or the function that owns it:
\* the connection is closed.
drop_stream(n) == n - 1

\* listener.incoming() yields the next stream, and `stream?` returns the
\* error of a failed accept from listen.
Accept ==
    /\ pc = "accept"
    /\ \/ \E c \in Clients :
            /\ conn' = [open |-> TRUE, input |-> c.input, peer |-> c.peer,
                        output |-> ""]
            /\ open_streams' = open_streams + 1
            /\ pc' = "parse"
            /\ failure' = failure
       \/ /\ pc' = AfterAcceptError
          /\ failure' = "accept"
          /\ conn' = NoConn
          /\ open_streams' = open_streams
    /\ UNCHANGED <<functions, regs, request, dispatched>>
    /\ UNCHANGED <<responseVars, methodVars>>

\* HTTPRequest::new(stream): the reader returns once it has met an empty
\* line or the end of the stream; a failed read is unwrapped. The stream
\* is dropped with a panic and with None, and kept in Some(request).
Parse ==
    /\ pc = "parse"
    /\ \E complete \in {HasEmptyLine(conn.input)} :
        /\ complete \/ conn.peer # "open"
        /\ \E res \in {IF ~complete /\ conn.peer = "reset"
                       THEN Panicked("called Result::unwrap() on an Err value")
                       ELSE HTTPRequest_new(conn.input)} :
            \/ /\ res.kind = "panic"
               /\ pc' = "panic"
               /\ failure' = IF ~complete /\ conn.peer = "reset"
                             THEN "read" ELSE "parse"
               /\ request' = NoRequest
               /\ conn' = [conn EXCEPT !.open = FALSE]
               /\ open_streams' = drop_stream(open_streams)
            \/ /\ res.kind = "value" /\ res.value = None
               /\ pc' = "accept"
               /\ failure' = failure
               /\ request' = NoRequest
               /\ conn' = [conn EXCEPT !.open = FALSE]
               /\ open_streams' = drop_stream(open_streams)
            \/ /\ res.kind = "value" /\ res.value # None
               /\ pc' = "dispatch"
               /\ failure' = failure
               /\ request' = res.value.value
               /\ conn' = conn
               /\ open_streams' = open_streams
    /\ UNCHANGED <<functions, regs, dispatched>>
    /\ UNCHANGED <<responseVars, methodVars>>

\* A match whose None arm is not exclusive: the default response is
\* written after the handler as well.
dispatch_both(func) ==
    IF func = None
    THEN [invoked |-> <<>>, default |-> TRUE, fails |-> FALSE,
          bytes |-> send_bytes("404")]
    ELSE [invoked |-> <<func.value>>, default |-> TRUE,
          fails |-> func.value = "fail",
          bytes |-> HandlerBytes(func.value) \o send_bytes("404")]

\* The match on the function found: the functions invoked with the
\* request, whether the loop itself wrote the default response, the bytes
\* handed to write_all, and whether an error came back without a write.
dispatch(func) ==
    IF func = None
    THEN [invoked |-> <<>>, default |-> TRUE, fails |-> FALSE,
          bytes |-> send_bytes("404")]
    ELSE [invoked |-> <<func.value>>, default |-> FALSE,
          fails |-> func.value = "fail",
          bytes |-> HandlerBytes(func.value)]

\* The body of `if let Some(mut request)`: the lookup, then the call of the
\* handler found or request.send("404"); `?` returns an error from listen.
\* write_all fails when the client is gone. The request, and the stream in
\* it, is dropped by the handler or at the end of the block.
Dispatch ==
    /\ pc = "dispatch"
    /\ \E func \in {MapGet(functions, Key(request.url, request.method))} :
       \E d \in {dispatch(func)} :
           /\ dispatched' = [url |-> request.url, method |-> request.method,
                             func |-> func, invoked |-> d.invoked,
                             default |-> d.default]
           /\ open_streams' = drop_stream(open_streams)
           /\ \/ /\ ~d.fails
                 /\ conn' = [conn EXCEPT !.output = @ \o d.bytes, !.open = FALSE]
                 /\ pc' = "served"
                 /\ failure' = failure
              \/ /\ ~d.fails
                 /\ conn' = [conn EXCEPT !.open = FALSE]
                 /\ pc' = "error"
                 /\ failure' = "write"
              \/ /\ d.fails
                 /\ conn' = [conn EXCEPT !.open = FALSE]
                 /\ pc' = "error"
                 /\ failure' = "handler"
    /\ UNCHANGED <<functions, regs, request>>
    /\ UNCHANGED <<responseVars, methodVars>>

\* The end of the loop body: the stream is gone with the request, and the
\* for loop asks for the next one.
NextStream ==
    /\ pc = "served"
    /\ pc' = "accept"
    /\ conn' = NoConn
    /\ request' = NoRequest
    /\ dispatched' = NotDispatched
    /\ UNCHANGED <<functions, regs, failure, open_streams>>
    /\ UNCHANGED <<responseVars, methodVars>>

-----------------------------------------------------------------------------
(* The server: registrations, then listen.                                 *)

Idle ==
    /\ functions = EmptyMap
    /\ regs = <<>>
    /\ pc = "idle"
    /\ conn = NoConn
    /\ request = NoRequest
    /\ dispatched = NotDispatched
    /\ failure = NoFailure
    /\ open_streams = 0

NotRendered == <<>>
NotConverted == [kind |-> "NotConverted"]
NotShown == [kind |-> "NotShown"]

NoResponse ==
    /\ resp = <<>>
    /\ calls = <<>>
    /\ out = NotRendered

NoMethod ==
    /\ text = ""
    /\ converted = NotConverted
    /\ shown = NotShown
    /\ back = NotConverted

\* HttpServer::new
Init ==
    /\ functions = EmptyMap
    /\ regs = <<>>
    /\ pc = "setup"
    /\ conn = NoConn
    /\ request = NoRequest
    /\ dispatched = NotDispatched
    /\ failure = NoFailure
    /\ open_streams = 0
    /\ NoResponse
    /\ NoMethod

Next ==
    \/ Get
    \/ Post
    \/ AddMethod
    \/ Listen
    \/ Accept
    \/ Parse
    \/ Dispatch
    \/ NextStream

Spec == Init /\ [][Next]_vars

-----------------------------------------------------------------------------
(* A response under construction: HTTPResponse::new, add_header calls,     *)
(* then to_string. Two responses are built by the same calls, each with    *)
(* a HashMap of its own.                                                   *)

Bodies == {"", "hi"}
HeaderKeys == {"Content-Type", "Content-Length", "X-A"}
HeaderValues == {"application/json", "99"}

InitResponse ==
    /\ Idle
    /\ NoMethod
    /\ \E status \in Statuses, data \in Bodies :
        resp = <<HTTPResponse_new(status, data), HTTPResponse_new(status, data)>>
    /\ calls = <<>>
    /\ out = NotRendered

AddHeader ==
    /\ out = NotRendered
    /\ Len(calls) < MaxCalls
    /\ \E key \in HeaderKeys, value \in HeaderValues :
        /\ resp' = <<add_header(resp[1], key, value),
                     add_header(resp[2], key, value)>>
        /\ calls' = Append(calls, [key |-> key, value |-> value])
    /\ UNCHANGED <<out, serverVars, methodVars>>

\* ToString::to_string, through Display, of each of the two responses.
to_string ==
    /\ out = NotRendered
    /\ \E o1 \in IterOrders(resp[1].headers), o2 \in IterOrders(resp[2].headers) :
        out' = <<HTTPResponse_fmt(resp[1], o1), HTTPResponse_fmt(resp[2], o2)>>
    /\ UNCHANGED <<resp, calls, serverVars, methodVars>>

NextResponse ==
    \/ AddHeader
    \/ to_string

SpecResponse == InitResponse /\ [][NextResponse]_vars

-----------------------------------------------------------------------------
(* Method conversions applied to a text.                                   *)

UpperChar(c) ==
    LET i == Find(LowerLetters, c)
    IN  IF i = 0 THEN c ELSE CharAt(UpperLetters, i)

\* Every letter-casing of a word.
RECURSIVE Casings(_)
Casings(w) ==
    IF Len(w) = 0 THEN {""}
    ELSE {c \o rest : c \in {LowerChar(CharAt(w, 1)), UpperChar(CharAt(w, 1))},
                      rest \in Casings(SubSeq(w, 2, Len(w)))}

Verbs == {"options", "get", "head", "post", "put", "delete", "trace", "connect"}

\* The first token of each request line a client sends.
RequestLineTokens == {split(l, " ")[1] : l \in RequestLines}

MethodTexts ==
    UNION {Casings(w) : w \in Verbs}
    \cup RequestLineTokens
    \cup {"", "ge", "gets", " get", "get ", "patch", "FETCH"}

InitMethod ==
    /\ Idle
    /\ NoResponse
    /\ text \in MethodTexts
    /\ converted = NotConverted
    /\ shown = NotShown
    /\ back = NotConverted

\* Method::from(text)
From ==
    /\ converted = NotConverted
    /\ converted' = MethodFrom(text)
    /\ UNCHANGED <<text, shown, back, serverVars, responseVars>>

\* to_string of the Method converted
Show ==
    /\ converted.kind = "value"
    /\ shown = NotShown
    /\ shown' = [kind |-> "Shown", value |-> MethodDisplay(converted.value)]
    /\ UNCHANGED <<text, converted, back, serverVars, responseVars>>

\* Method::from of the displayed token, in any letter-casing
FromShown ==
    /\ shown # NotShown
    /\ back = NotConverted
    /\ \E t \in Casings(shown.value) :
        back' = [kind |-> "Converted", text |-> t, result |-> MethodFrom(t)]
    /\ UNCHANGED <<text, converted, shown, serverVars, responseVars>>

NextMethod ==
    \/ From
    \/ Show
    \/ FromShown

SpecMethod == InitMethod /\ [][NextMethod]_vars

-----------------------------------------------------------------------------
(* Properties of the routing table and of the default response.            *)

\* The registrations of regs made for the pair (method, url).
RegsFor(method, url) ==
    {i \in 1..Len(regs) : regs[i].method = method /\ regs[i].url = url}

\* The function given by the last registration for (method, url), if any.
LastRegistered(method, url) ==
    LET is == RegsFor(method, url)
    IN  IF is = {} THEN None
        ELSE Some(regs[CHOOSE i \in is : \A j \in is : j <= i].func)

AllUrls == RegUrls \cup {"/a/", "/b", "/"}

\* C1: the lookup done by listen for a request (method, url) finds a handler
\* if and only if some registration was made with exactly that method and
\* exactly that url string.
C1_ExactMatch ==
    dispatched # NotDispatched =>
        /\ dispatched.url = request.url
        /\ dispatched.method = request.method
        /\ (dispatched.func # None
              <=> RegsFor(dispatched.method, dispatched.url) # {})

\* A request was looked up and not found although a registration differs
\* from it only in the letter case of the url or only in the method.
C1_Witness ==
    /\ dispatched # NotDispatched
    /\ dispatched.func = None
    /\ \E i \in 1..Len(regs) :
        /\ regs[i].method = dispatched.method
        /\ regs[i].url # dispatched.url
        /\ to_lowercase(regs[i].url) = to_lowercase(dispatched.url)
    /\ \E i \in 1..Len(regs) :
        /\ regs[i].method # dispatched.method
        /\ regs[i].url = dispatched.url

\* C2: after any sequence of registrations the table holds, for every pair,
\* exactly the function of the most recent registration for that pair (none
\* if there was none), and that is the function the lookup of listen finds.
C2_LastRegistrationWins ==
    /\ \A method \in Methods, url \in AllUrls :
        MapGet(functions, Key(url, method)) = LastRegistered(method, url)
    /\ DOMAIN functions \subseteq {Key(url, method) : url \in AllUrls, method \in Methods}
    /\ dispatched # NotDispatched =>
        dispatched.func = LastRegistered(dispatched.method, dispatched.url)

\* A pair was registered twice with different functions, another pair once,
\* and the lookup found the function of the second registration.
C2_Witness ==
    /\ Len(regs) = 2
    /\ regs[1].method = regs[2].method /\ regs[1].url = regs[2].url
    /\ regs[1].func # regs[2].func
    /\ dispatched # NotDispatched
    /\ dispatched.func = Some(regs[2].func)

\* The text after the first blank line of a response, as a client reads it.
RECURSIVE AfterBlankLine(_)
AfterBlankLine(bytes) ==
    IF Len(bytes) < 4 THEN [found |-> FALSE]
    ELSE IF SubSeq(bytes, 1, 4) = "\r\n\r\n"
    THEN [found |-> TRUE, body |-> SubSeq(bytes, 5, Len(bytes))]
    ELSE AfterBlankLine(SubSeq(bytes, 2, Len(bytes)))

\* C3: when the request's (url, method) has no registered handler, the
\* loop writes the response with status line "HTTP/1.1 404 NOT FOUND" and
\* body "404".
C3_DefaultResponse ==
    (pc = "served" /\ dispatched.func = None) =>
        /\ lines(conn.output)[1] = "HTTP/1.1 404 NOT FOUND"
        /\ AfterBlankLine(conn.output) = [found |-> TRUE, body |-> "404"]

-----------------------------------------------------------------------------
(* Properties of HTTPResponse.                                             *)

\* The add_header calls of calls that used key.
CallsWith(key) == {i \in 1..Len(calls) : calls[i].key = key}

FirstCallWith(key) ==
    CHOOSE i \in CallsWith(key) : \A j \in CallsWith(key) : i <= j

\* C4: the value stored for a key is the value of the first add_header call
\* that used that key, and only keys that were used are stored; so a later
\* call with the same key changes neither that value nor another header.
C4_FirstWriteWins ==
    resp # <<>> =>
        /\ DOMAIN resp[1].headers = {calls[i].key : i \in 1..Len(calls)}
        /\ \A key \in DOMAIN resp[1].headers :
            resp[1].headers[key] = calls[FirstCallWith(key)].value

\* A key was used twice with different values, another key in between.
C4_Witness ==
    /\ Len(calls) = 3
    /\ calls[1].key = calls[3].key
    /\ calls[1].value # calls[3].value
    /\ calls[2].key # calls[1].key
    /\ resp[1].headers[calls[1].key] = calls[1].value

StartsWith(s, prefix) ==
    Len(s) >= Len(prefix) /\ SubSeq(s, 1, Len(prefix)) = prefix

\* C5: the serialized response carries the header "Content-Length: L" for
\* the length L of its body, and no Content-Length header of another value,
\* whatever add_header calls were made.
C5_ContentLengthDerived ==
    out # NotRendered =>
        LET ls == lines(out[1])
            cl == "Content-Length: " \o usize_to_string(Len(resp[1].data))
        IN  /\ \E i \in 1..Len(ls) : ls[i] = cl
            /\ \A i \in 1..Len(ls) :
                StartsWith(ls[i], "Content-Length:") => ls[i] = cl

\* The layout C6 describes, for the headers in a given order and a given
\* line terminator between them.
Layout(r, order, terminator) ==
    "HTTP/1.1 " \o StatusDisplay(r.status) \o "\r\n"
    \o "Content-Length: " \o usize_to_string(Len(r.data)) \o "\r\n"
    \o join([i \in 1..Len(order) |-> order[i] \o ": " \o r.headers[order[i]]],
            terminator)
    \o (IF Len(order) = 0 THEN "" ELSE "\r\n")
    \o "\r\n"
    \o r.data

\* C6: the serialized bytes are the status line, the Content-Length header,
\* the added headers as "<key>: <value>" separated by one line terminator,
\* a blank separator line, then the body; the body is what follows the
\* first blank line.
C6_Layout ==
    out # NotRendered =>
        /\ \E order \in IterOrders(resp[1].headers), terminator \in {"\r\n", "\n"} :
            out[1] = Layout(resp[1], order, terminator)
        /\ AfterBlankLine(out[1]) = [found |-> TRUE, body |-> resp[1].data]

\* C7: two responses built by the same status, body and add_header calls
\* serialize to identical bytes.
C7_Deterministic ==
    out # NotRendered => out[1] = out[2]

-----------------------------------------------------------------------------
(* Properties of Method::from.                                             *)

\* C8: every letter-casing of a verb converts to the matching variant, and
\* any other text yields an UnknownMethod error value; no text makes the
\* conversion panic.
C8_FallibleConversion ==
    converted # NotConverted =>
        /\ converted.kind # "panic"
        /\ \A m \in Methods :
            to_lowercase(text) = to_lowercase(MethodDisplay(m))
                => converted = Returned(m)
        /\ (\A m \in Methods : to_lowercase(text) # to_lowercase(MethodDisplay(m)))
                => converted = Returned([error |-> "UnknownMethod", text |-> text])

-----------------------------------------------------------------------------
(* Properties of the header map of a parsed request.                       *)

\* The position of the first occurrence of ": " in s, 0 if none.
FindSeparator(s) ==
    LET hits == {i \in 1..(Len(s) - 1) : SubSeq(s, i, i + 1) = ": "}
    IN  IF hits = {} THEN 0 ELSE CHOOSE i \in hits : \A j \in hits : i <= j

\* The header lines "K: V" a client sent: the lines after the request line,
\* up to the first empty line, as [key |-> K, value |-> V].
SentHeaders(input) ==
    LET ls == take_while_nonempty(lines(input))
    IN  [i \in 1..(Len(ls) - 1) |->
            LET l == ls[i + 1]
                at == FindSeparator(l)
            IN  [key |-> SubSeq(l, 1, at - 1), value |-> SubSeq(l, at + 2, Len(l))]]

WellFormedHeaders(input) ==
    LET ls == take_while_nonempty(lines(input))
    IN  \A i \in 2..Len(ls) : FindSeparator(ls[i]) > 1

\* C9: the parsed header map maps lowercase(K) to V for every header line
\* "K: V", with the value of the later line when two lines have the same
\* key up to letter case.
C9_KeysFoldedLastWins ==
    (pc = "dispatch" /\ WellFormedHeaders(conn.input)) =>
        LET sent == SentHeaders(conn.input)
        IN  \A i \in 1..Len(sent) :
                LET k == to_lowercase(sent[i].key)
                    same == {j \in 1..Len(sent) : to_lowercase(sent[j].key) = k}
                    last == CHOOSE j \in same : \A j2 \in same : j2 <= j
                IN  /\ k \in DOMAIN request.headers
                    /\ request.headers[k] = sent[last].value

\* C10: the value parsed for a header line is the whole text after the
\* first ": " of the line, also when that text contains colons. (Checked
\* for the lines whose key no other line of the request uses, under the key
\* as sent or folded.)
C10_SplitAtFirstSeparator ==
    (pc = "dispatch" /\ WellFormedHeaders(conn.input)) =>
        LET sent == SentHeaders(conn.input)
        IN  \A i \in 1..Len(sent) :
                (\A j \in 1..Len(sent) :
                    to_lowercase(sent[j].key) = to_lowercase(sent[i].key) => j = i)
                => \E k \in DOMAIN request.headers :
                        /\ to_lowercase(k) = to_lowercase(sent[i].key)
                        /\ request.headers[k] = sent[i].value

-----------------------------------------------------------------------------
(* Properties of the connection loop.                                      *)

Accepted == "input" \in DOMAIN conn

\* The body a request holds: its body field, empty when it has none.
BodyOf(req) == IF "body" \in DOMAIN req THEN req.body ELSE ""

\* The bytes a client sent after the header block.
SentBody(input) ==
    LET after == AfterBlankLine(input)
    IN  IF after.found THEN after.body ELSE ""

\* The values of the content-length headers a client sent.
SentContentLengths(input) ==
    LET sent == SentHeaders(input)
    IN  {sent[i].value : i \in {j \in 1..Len(sent) :
                                    to_lowercase(sent[j].key) = "content-length"}}

\* C11: for a well-formed request with header content-length: N and N body
\* bytes after the header block, the parsed request's body is those N
\* bytes; a request without a content-length header has an empty body.
C11_BodyFramed ==
    (pc = "dispatch" /\ WellFormedHeaders(conn.input)) =>
        LET body == SentBody(conn.input)
            declared == SentContentLengths(conn.input)
        IN  /\ declared = {usize_to_string(Len(body))} => BodyOf(request) = body
            /\ declared = {} => BodyOf(request) = ""

EndsWith(s, suffix) ==
    Len(s) >= Len(suffix) /\ SubSeq(s, Len(s) - Len(suffix) + 1, Len(s)) = suffix

\* The body the function "hello" answers with.
HelloBody == "hi"

\* C12: when the request's (method, url) has the registered handler that
\* answers with send(body), the bytes written back begin with
\* "HTTP/1.1 200 OK\r\nContent-Length: <len(body)>\r\n" and end with body.
C12_SuccessPath ==
    (pc = "served" /\ dispatched.func = Some("hello")) =>
        /\ StartsWith(conn.output,
                      "HTTP/1.1 200 OK\r\nContent-Length: "
                        \o usize_to_string(Len(HelloBody)) \o "\r\n")
        /\ EndsWith(conn.output, HelloBody)
        /\ Len(conn.output) > Len(HelloBody)

\* The request of the scenario, answered by the handler registered for it.
C12_Witness ==
    /\ pc = "served"
    /\ dispatched.func = Some("hello")
    /\ conn.input = "GET /a HTTP/1.1\r\nHost: x\r\n\r\n"
    /\ conn.output = "HTTP/1.1 200 OK\r\nContent-Length: 2\r\n\r\nhi"

\* C13: when a handler returns an error, the write of a response fails or
\* the request fails to parse, the loop neither returns nor unwinds.
C13_ErrorsConfined ==
    failure \in {"handler", "write", "parse"} => pc \notin {"error", "panic"}

\* C14: after an error while accepting, listen has returned that error, no
\* connection is open and none is accepted.
C14_AcceptErrorFatal ==
    failure = "accept" =>
        /\ pc = "error"
        /\ ~Accepted
        /\ open_streams = 0

\* An accept failed after registrations were made.
C14_Witness ==
    /\ failure = "accept"
    /\ pc = "error"
    /\ Len(regs) > 0

\* C15: at most one accepted connection is open, and none is open when the
\* loop asks for the next connection.
C15_OneConnection ==
    /\ open_streams <= 1
    /\ pc = "accept" => open_streams = 0
    /\ (Accepted /\ conn.open) <=> open_streams = 1

\* A connection was answered and is closed before the next accept.
C15_Witness ==
    /\ pc = "served"
    /\ open_streams = 0
    /\ Accepted /\ ~conn.open /\ conn.output # ""

\* The number of responses in the bytes written to a connection.
CountResponses(bytes) ==
    Cardinality({i \in 1..Len(bytes) :
                    i + 8 <= Len(bytes) /\ SubSeq(bytes, i, i + 8) = "HTTP/1.1 "})

\* C16: for a connection whose request parses, either the handler
\* registered for it is invoked, once, or (none registered) the loop writes
\* the default response, never both; the request dispatched is the first
\* one the client sent, and one response at most is written.
C16_OneDispatch ==
    dispatched # NotDispatched =>
        /\ dispatched.func # None =>
            (dispatched.invoked = <<dispatched.func.value>> /\ ~dispatched.default)
        /\ dispatched.func = None =>
            (dispatched.invoked = <<>> /\ dispatched.default)
        /\ dispatched.url = split(lines(conn.input)[1], " ")[2]
        /\ CountResponses(conn.output) <= 1
        /\ pc = "served" => CountResponses(conn.output) = 1

\* A client sent two requests on one connection and got one answer.
C16_Witness ==
    /\ pc = "served"
    /\ conn.input = "GET /a HTTP/1.1\r\nHost: x\r\n\r\nGET /A HTTP/1.1\r\n\r\n"
    /\ dispatched.url = "/a"
    /\ dispatched.invoked # <<>>

\* The request line of the connection has fewer than three tokens.
ShortRequestLine ==
    /\ Accepted
    /\ LET ls == lines(conn.input)
       IN  Len(ls) > 0 /\ ls[1] # "" /\ Len(split(ls[1], " ")) < 3

\* C17: a request line with fewer than three tokens is rejected with a
\* parse error: no request is produced and no handler is invoked.
C17_ShortRequestLineRejected ==
    (ShortRequestLine /\ pc # "parse") =>
        /\ pc # "panic"
        /\ request = NoRequest
        /\ dispatched = NotDispatched

\* The number a decimal text stands for.
RECURSIVE parse_decimal(_)
parse_decimal(s) ==
    IF Len(s) = 0 THEN 0
    ELSE 10 * parse_decimal(SubSeq(s, 1, Len(s) - 1))
         + (Find(Digits, CharAt(s, Len(s))) - 1)

\* The client has not delivered its whole request: the header block is not
\* ended, or fewer body bytes than the content-length header announces.
Undelivered(input) ==
    \/ ~HasEmptyLine(input)
    \/ /\ WellFormedHeaders(input)
       /\ \E n \in SentContentLengths(input) :
            Len(SentBody(input)) < parse_decimal(n)

\* C18: while the client has not delivered its whole request and keeps the
\* connection open, the loop stays in HTTPRequest::new and writes nothing.
C18_StalledClientBlocks ==
    (Accepted /\ conn.peer = "open" /\ Undelivered(conn.input)) =>
        /\ pc = "parse"
        /\ conn.output = ""
        /\ conn.open

\* The connection delivers no request line.
EmptyRequest ==
    /\ Accepted
    /\ \/ conn.input = "" /\ conn.peer = "closed"
       \/ Len(lines(conn.input)) > 0 /\ lines(conn.input)[1] = ""

\* C20: HTTPRequest::new on a connection that delivers no request line
\* yields no request; no handler is invoked, nothing is written, the
\* routing table is unchanged and the loop goes on to the next accept.
C20_EmptyRequestSkipped ==
    [][(pc = "parse" /\ EmptyRequest) =>
          /\ pc' = "accept"
          /\ request' = NoRequest
          /\ dispatched' = NotDispatched
          /\ functions' = functions
          /\ conn'.output = "" /\ ~conn'.open
          /\ open_streams' = 0
          /\ failure' = failure]_vars

\* An empty request was skipped by a server with registrations.
C20_Witness ==
    /\ pc = "accept"
    /\ EmptyRequest
    /\ ~conn.open
    /\ Len(regs) > 0

-----------------------------------------------------------------------------
(* Properties of the Method conversions taken together.                    *)

\* The identifier of a variant, after "Method::".
VariantName(m) == SubSeq(m, 9, Len(m))

\* C19: the displayed token of a variant is its exact uppercase verb, the
\* tokens of different variants differ, and Method::from of the displayed
\* token, in any letter-casing, yields the variant again.
C19_RoundTrip ==
    /\ \A m1, m2 \in Methods : m1 # m2 => MethodDisplay(m1) # MethodDisplay(m2)
    /\ shown # NotShown =>
        /\ shown.value = VariantName(converted.value)
        /\ to_lowercase(shown.value) \in Verbs
        /\ shown.value \notin Verbs
    /\ back # NotConverted => back.result = Returned(converted.value)

\* A mixed-case spelling of a displayed token was converted back.
C19_Witness ==
    /\ back # NotConverted
    /\ back.text # shown.value
    /\ back.text # to_lowercase(shown.value)
    /\ back.result = Returned(converted.value)
    /\ text # back.text

====
